---- MODULE Spec2Model ----
(***************************************************************************)
(* A model of the AdobePS research companion.                              *)
(*                                                                         *)
(*   - the persona-analysis page (frontend/src/pages/PersonaAnalysis.js):  *)
(*     its React state and its handlers onDrop, removeFile, the two text   *)
(*     areas, handleAnalysis and the continuation of handleAnalysis after  *)
(*     its two-second timer;                                               *)
(*   - the PDF viewer page (frontend/src/pages/PDFViewer.js);              *)
(*   - the engine behind the two endpoints (backend/, which is not part of *)
(*     the sources at hand): modelled from the design document.            *)
(*                                                                         *)
(* A React state that is null or a value is a sequence of length 0 or 1;   *)
(* an error message that is null is the string "null".  Text-area contents *)
(* are sequences of one-character strings, so that trim() is computed.     *)
(* Scores are integers: similarity and importance in hundredths, level     *)
(* multipliers in tenths.                                                  *)
(***************************************************************************)
EXTENDS Integers, Sequences, FiniteSets, TLC

VARIABLES
    \* PersonaAnalysis.js, lines 6-11
    pdfFiles, personaDescription, jobToBeDone, analysis, loading, error,
    \* the mock analyses whose timer (line 106) has not fired yet, oldest first
    pending

personaVars == <<pdfFiles, personaDescription, jobToBeDone, analysis, loading,
                 error, pending>>

VARIABLES
    \* PDFViewer.js, lines 7-12 (its loading and error are viewerLoading and
    \* viewerError here)
    pdfFile, pdfUrl, outline, viewerLoading, viewerError, expandedSections,
    \* the files whose POST /extract-outline (line 63) has not settled yet
    requests,
    \* the page number navigateToPage (line 91) was last called with
    clickedPage

viewerVars == <<pdfFile, pdfUrl, outline, viewerLoading, viewerError,
                expandedSections, requests, clickedPage>>

VARIABLES
    \* the Hierarchy Assigner (design document, 4.3): the heading candidates of
    \* one document in page order, the arena of outline nodes built so far,
    \* the indices of the open ancestors, and the next candidate to place
    candidates, nodes, openStack, cursor

hierarchyVars == <<candidates, nodes, openStack, cursor>>

VARIABLES
    \* the Batch Orchestrator (design document, 4.7): its state, the request,
    \* each document's worker, the per-document errors, the sections of the
    \* extracted documents in the order the extractions finished, those with
    \* their similarity, the ranked sections, the sub-section analyses and the
    \* error of the batch
    batchState, request, workers, docErrors, pool, scored, ranked, subAnalyses,
    batchError

batchVars == <<batchState, request, workers, docErrors, pool, scored, ranked,
               subAnalyses, batchError>>

vars == <<personaVars, viewerVars, hierarchyVars, batchVars>>

\* what the steps of one component leave alone
outsidePersona == <<viewerVars, hierarchyVars, batchVars>>
outsideViewer == <<personaVars, hierarchyVars, batchVars>>
outsideHierarchy == <<personaVars, viewerVars, batchVars>>
outsideBatch == <<personaVars, viewerVars, hierarchyVars>>

Null == <<>>
Some(v) == <<v>>
NoError == "null"

(***************************************************************************)
(* Bounds of the model.                                                    *)
(***************************************************************************)
\* the largest number of files in one drop
MaxDrop == 11
\* the largest number of analyses whose timer is running at once
MaxPending == 1

(***************************************************************************)
(* Program constants.                                                      *)
(***************************************************************************)
MinDropFiles == 3
MaxDropFiles == 10
MinAnalysisFiles == 3

PdfType == "application/pdf"

ErrDropMin == "Please upload at least 3 PDF files for persona analysis."
ErrDropMax == "Please upload no more than 10 PDF files."
ErrMissingPersona == "Please provide both persona description and job-to-be-done."
ErrTooFewFiles == "Please upload at least 3 PDF files."

(***************************************************************************)
(* Helpers standing for the JavaScript built-ins the handlers use.         *)
(***************************************************************************)
\* files.filter((_, i) => i !== index), with the 0-based index of JavaScript
RemoveAt(s, index) ==
    [k \in 1..(Len(s) - (IF index + 1 \in 1..Len(s) THEN 1 ELSE 0)) |->
        IF k < index + 1 THEN s[k] ELSE s[k + 1]]

WhiteSpace == {" ", "\t", "\n"}

RECURSIVE TrimStart(_)
TrimStart(s) ==
    IF s # <<>> /\ Head(s) \in WhiteSpace THEN TrimStart(Tail(s)) ELSE s

RECURSIVE TrimEnd(_)
TrimEnd(s) ==
    IF s # <<>> /\ s[Len(s)] \in WhiteSpace
    THEN TrimEnd(SubSeq(s, 1, Len(s) - 1)) ELSE s

\* Trim with the whitespace left in place
TrimKeepsWhiteSpace(s) == s

\* String.prototype.trim
Trim(s) == TrimEnd(TrimStart(s))

\* !text.trim(): the empty string is the only falsy string
Blank(s) == Trim(s) = <<>>


(***************************************************************************)
(* Inputs: the files of a drop.  A drop of n files is all PDFs, or holds a *)
(* text file at every even position; a PDF is named after its rank among   *)
(* the PDFs of the drop.                                                   *)
(***************************************************************************)
FileName(i) == "doc" \o ToString(i) \o ".pdf"

AllPdfDrop(n) == [i \in 1..n |-> [name |-> FileName(i), type |-> PdfType]]

MixedDrop(n) ==
    [i \in 1..n |->
        IF i % 2 = 1 THEN [name |-> FileName((i + 1) \div 2), type |-> PdfType]
        ELSE [name |-> "notes.txt", type |-> "text/plain"]]

\* the sizes at and around the two limits of onDrop, and the largest drop
DropSizes ==
    {0, MinDropFiles - 1, MinDropFiles, MaxDropFiles, MaxDropFiles + 1, MaxDrop}

Drops ==
    {AllPdfDrop(n) : n \in DropSizes} \cup
    {MixedDrop(n) : n \in {MinDropFiles + 1, 2 * MinDropFiles - 1, MaxDrop}}

\* the Remove button that is clicked: the one of the last listed file
RemoveChoices == {Len(pdfFiles) - 1}

Texts == {<<>>, <<" ">>, <<"a">>}

(***************************************************************************)
(* PersonaAnalysis.js                                                      *)
(***************************************************************************)
PersonaInit ==
    /\ pdfFiles = <<>>
    /\ personaDescription = <<>>
    /\ jobToBeDone = <<>>
    /\ analysis = Null
    /\ loading = FALSE
    /\ error = NoError
    /\ pending = <<>>

\* PdfOnly with every file kept
PdfOnlyKeepsAll(files) == files

RECURSIVE PdfOnly(_)
\* acceptedFiles.filter(file => file.type === 'application/pdf')
PdfOnly(files) ==
    IF files = <<>> THEN <<>>
    ELSE IF Head(files).type = PdfType
         THEN <<Head(files)>> \o PdfOnly(Tail(files))
         ELSE PdfOnly(Tail(files))

\* onDrop without its upper limit
OnDropNoUpperLimit(acceptedFiles) ==
    LET pdfs == PdfOnly(acceptedFiles) IN
    /\ IF Len(pdfs) < MinDropFiles
       THEN error' = ErrDropMin /\ UNCHANGED pdfFiles
       ELSE pdfFiles' = pdfs /\ error' = NoError
    /\ UNCHANGED <<personaDescription, jobToBeDone, analysis, loading, pending>>

\* onDrop, lines 13-26
OnDrop(acceptedFiles) ==
    LET pdfs == PdfOnly(acceptedFiles) IN
    /\ IF Len(pdfs) < MinDropFiles
       THEN error' = ErrDropMin /\ UNCHANGED pdfFiles
       ELSE IF Len(pdfs) > MaxDropFiles
            THEN error' = ErrDropMax /\ UNCHANGED pdfFiles
            ELSE pdfFiles' = pdfs /\ error' = NoError
    /\ UNCHANGED <<personaDescription, jobToBeDone, analysis, loading, pending>>

\* removeFile, lines 116-118; the Remove buttons exist for the listed files
RemoveFile(index) ==
    /\ index \in 0..(Len(pdfFiles) - 1)
    /\ pdfFiles' = RemoveAt(pdfFiles, index)
    /\ UNCHANGED <<personaDescription, jobToBeDone, analysis, loading, error,
                   pending>>

\* the onChange of the persona text area, line 179
SetPersonaDescription(value) ==
    /\ personaDescription' = value
    /\ UNCHANGED <<pdfFiles, jobToBeDone, analysis, loading, error, pending>>

\* the onChange of the job text area, line 193
SetJobToBeDone(value) ==
    /\ jobToBeDone' = value
    /\ UNCHANGED <<pdfFiles, personaDescription, analysis, loading, error,
                   pending>>

\* pdfFiles[k]?.name || fallback, with the 0-based k of JavaScript
NameOrDefault(files, k, fallback) ==
    IF k + 1 \in 1..Len(files) THEN files[k + 1].name ELSE fallback

\* the extracted_sections literal with its last two entries exchanged
MockSectionsOutOfOrder(files) ==
    << [document |-> NameOrDefault(files, 0, "document1.pdf"), page |-> 5,
        section_title |-> "Introduction to Machine Learning",
        importance_rank |-> 95, similarity_score |-> 92, level |-> "H1"],
       [document |-> NameOrDefault(files, 2, "document3.pdf"), page |-> 8,
        section_title |-> "Deep Learning Applications",
        importance_rank |-> 82, similarity_score |-> 78, level |-> "H1"],
       [document |-> NameOrDefault(files, 1, "document2.pdf"), page |-> 12,
        section_title |-> "Neural Network Architectures",
        importance_rank |-> 88, similarity_score |-> 85, level |-> "H2"] >>

\* the extracted_sections literal, lines 61-86
MockSections(files) ==
    << [document |-> NameOrDefault(files, 0, "document1.pdf"), page |-> 5,
        section_title |-> "Introduction to Machine Learning",
        importance_rank |-> 95, similarity_score |-> 92, level |-> "H1"],
       [document |-> NameOrDefault(files, 1, "document2.pdf"), page |-> 12,
        section_title |-> "Neural Network Architectures",
        importance_rank |-> 88, similarity_score |-> 85, level |-> "H2"],
       [document |-> NameOrDefault(files, 2, "document3.pdf"), page |-> 8,
        section_title |-> "Deep Learning Applications",
        importance_rank |-> 82, similarity_score |-> 78, level |-> "H1"] >>

\* the sub_section_analyses literal with its two entries exchanged
MockSubSectionsOutOfOrder(files) ==
    << [document |-> NameOrDefault(files, 1, "document2.pdf"),
        refined_text |-> [title |-> "Neural Network Architectures",
                          band |-> "moderately", page |-> 12],
        page |-> 12,
        original_title |-> "Neural Network Architectures",
        relevance_explanation |-> [title |-> "Neural Network Architectures",
                                   band |-> "none"]],
       [document |-> NameOrDefault(files, 0, "document1.pdf"),
        refined_text |-> [title |-> "Introduction to Machine Learning",
                          band |-> "highly", page |-> 5],
        page |-> 5,
        original_title |-> "Introduction to Machine Learning",
        relevance_explanation |-> [title |-> "Introduction to Machine Learning",
                                   band |-> "high"]] >>

\* the sub_section_analyses literal, lines 87-102.  A refined_text is the
\* sentence "This section on '<title>' is <band> relevant to your needs. It
\* appears on page <page> and ...": its three holes are kept.
MockSubSections(files) ==
    << [document |-> NameOrDefault(files, 0, "document1.pdf"),
        refined_text |-> [title |-> "Introduction to Machine Learning",
                          band |-> "highly", page |-> 5],
        page |-> 5,
        original_title |-> "Introduction to Machine Learning",
        relevance_explanation |-> [title |-> "Introduction to Machine Learning",
                                   band |-> "high"]],
       [document |-> NameOrDefault(files, 1, "document2.pdf"),
        refined_text |-> [title |-> "Neural Network Architectures",
                          band |-> "moderately", page |-> 12],
        page |-> 12,
        original_title |-> "Neural Network Architectures",
        relevance_explanation |-> [title |-> "Neural Network Architectures",
                                   band |-> "none"]] >>

\* the mockAnalysis object, lines 53-103 (timestamp, the clock's reading, is
\* left out)
MockAnalysis(files, persona, job) ==
    [metadata |-> [documents |-> [i \in 1..Len(files) |-> files[i].name],
                   persona_description |-> persona,
                   job_to_be_done |-> job,
                   processing_time |-> 25],
     extracted_sections |-> MockSections(files),
     sub_section_analyses |-> MockSubSections(files)]

\* the validation without its check of the number of files
ValidationErrorIgnoringFiles(files, persona, job) ==
    IF Blank(persona) \/ Blank(job) THEN ErrMissingPersona ELSE NoError

\* the validation of handleAnalysis, lines 37-45: the error it returns with,
\* or NoError when the analysis goes ahead
ValidationError(files, persona, job) ==
    IF Blank(persona) \/ Blank(job) THEN ErrMissingPersona
    ELSE IF Len(files) < MinAnalysisFiles THEN ErrTooFewFiles
    ELSE NoError

\* handleAnalysis up to its await, lines 36-106
HandleAnalysis ==
    LET err == ValidationError(pdfFiles, personaDescription, jobToBeDone) IN
    IF err # NoError
    THEN /\ error' = err
         /\ UNCHANGED <<pdfFiles, personaDescription, jobToBeDone, analysis,
                        loading, pending>>
    ELSE /\ loading' = TRUE
         /\ error' = NoError
         /\ pending' = Append(pending,
                MockAnalysis(pdfFiles, personaDescription, jobToBeDone))
         /\ UNCHANGED <<pdfFiles, personaDescription, jobToBeDone, analysis>>

\* the continuation with the result built from the state at the time the
\* timer fires
FinishAnalysisReadingCurrentState ==
    /\ pending # <<>>
    /\ analysis' = Some(MockAnalysis(pdfFiles, personaDescription, jobToBeDone))
    /\ loading' = FALSE
    /\ pending' = Tail(pending)
    /\ UNCHANGED <<pdfFiles, personaDescription, jobToBeDone, error>>

\* the continuation with the finally block left out
FinishAnalysisNoFinally ==
    /\ pending # <<>>
    /\ analysis' = Some(Head(pending))
    /\ pending' = Tail(pending)
    /\ UNCHANGED <<pdfFiles, personaDescription, jobToBeDone, error, loading>>

\* handleAnalysis after its await, lines 108-113: the timers run for the same
\* two seconds, so they fire in the order they were set.  Nothing between
\* lines 50 and 108 throws, so the catch block is never entered.
FinishAnalysis ==
    /\ pending # <<>>
    /\ analysis' = Some(Head(pending))
    /\ loading' = FALSE
    /\ pending' = Tail(pending)
    /\ UNCHANGED <<pdfFiles, personaDescription, jobToBeDone, error>>

\* the disabled attribute with loading left out
StartDisabledIgnoringLoading ==
    \/ Len(pdfFiles) < MinAnalysisFiles
    \/ Blank(personaDescription)
    \/ Blank(jobToBeDone)

\* the disabled attribute of the Start button, line 202
StartDisabled ==
    \/ loading
    \/ Len(pdfFiles) < MinAnalysisFiles
    \/ Blank(personaDescription)
    \/ Blank(jobToBeDone)

(***************************************************************************)
(* PDFViewer.js                                                            *)
(***************************************************************************)
ErrInvalidPdf == "Please upload a valid PDF file."
ErrExtractFailed == "Failed to extract outline from PDF."
ErrProcessing(message) == "Error processing PDF: " \o message

ViewerInit ==
    /\ pdfFile = Null
    /\ pdfUrl = Null
    /\ outline = Null
    /\ viewerLoading = FALSE
    /\ viewerError = NoError
    /\ expandedSections = {}
    /\ requests = <<>>
    /\ clickedPage = Null

\* Inputs: what is dropped on the viewer
ViewerDrops ==
    { <<>>,
      << [name |-> "report.pdf", type |-> PdfType] >>,
      << [name |-> "thesis.pdf", type |-> PdfType] >>,
      << [name |-> "scan.pdf", type |-> ""] >>,
      << [name |-> "paper.pdf", type |-> PdfType],
         [name |-> "notes.txt", type |-> "text/plain"] >>,
      << [name |-> "notes.txt", type |-> "text/plain"],
         [name |-> "paper.pdf", type |-> PdfType] >> }

Leaf(level, text, page) ==
    [level |-> level, text |-> text, page |-> page, children |-> <<>>]

\* Inputs: the results the endpoint answers with
OutlineResults ==
    { [title |-> "", outline |-> <<>>],
      [title |-> "Company Report",
       outline |-> << [level |-> "H1", text |-> "1. Overview", page |-> 1,
                       children |-> << Leaf("H2", "1.1 Background", 1) >>],
                      Leaf("H1", "2. Results", 2) >>],
      [title |-> "Handbook",
       outline |-> << [level |-> "H1", text |-> "Setup", page |-> 1,
                       children |->
                         << [level |-> "H2", text |-> "Install", page |-> 2,
                             children |-> << Leaf("H3", "Linux", 2),
                                             Leaf("H3", "macOS", 3) >>],
                            [level |-> "H2", text |-> "Configure", page |-> 3,
                             children |-> << Leaf("H3", "Paths", 3) >>] >>],
                      [level |-> "H1", text |-> "Usage", page |-> 4,
                       children |->
                         << [level |-> "H2", text |-> "Commands", page |-> 4,
                             children |-> << Leaf("H3", "run", 5) >>] >>] >>] }

\* Inputs: how the request settles: axios throws, or response.data arrives
Responses ==
    {[threw |-> TRUE, message |-> m, success |-> FALSE, result |-> Null] :
        m \in {"Network Error", "Request failed with status code 500"}}
    \cup {[threw |-> FALSE, message |-> "", success |-> FALSE, result |-> Null]}
    \cup {[threw |-> FALSE, message |-> "", success |-> TRUE, result |-> Some(o)] :
            o \in OutlineResults}

\* URL.createObjectURL(file)
CreateObjectURL(file) == "blob:" \o file.name

\* onDrop taking the first PDF of the drop rather than its first file
ViewerOnDropFirstPdf(acceptedFiles) ==
    LET pdfs == PdfOnly(acceptedFiles) IN
    IF pdfs # <<>>
    THEN /\ pdfFile' = Some(pdfs[1])
         /\ viewerError' = NoError
         /\ pdfUrl' = Some(CreateObjectURL(pdfs[1]))
         /\ viewerLoading' = TRUE
         /\ requests' = Append(requests, pdfs[1])
         /\ UNCHANGED <<outline, expandedSections, clickedPage>>
    ELSE /\ viewerError' = ErrInvalidPdf
         /\ UNCHANGED <<pdfFile, pdfUrl, outline, viewerLoading,
                        expandedSections, requests, clickedPage>>

\* onDrop, lines 32-47, with extractOutline up to its await, lines 57-63
ViewerOnDrop(acceptedFiles) ==
    IF acceptedFiles # <<>> /\ acceptedFiles[1].type = PdfType
    THEN /\ pdfFile' = Some(acceptedFiles[1])
         /\ viewerError' = NoError
         /\ pdfUrl' = Some(CreateObjectURL(acceptedFiles[1]))
         /\ viewerLoading' = TRUE
         /\ requests' = Append(requests, acceptedFiles[1])
         /\ UNCHANGED <<outline, expandedSections, clickedPage>>
    ELSE /\ viewerError' = ErrInvalidPdf
         /\ UNCHANGED <<pdfFile, pdfUrl, outline, viewerLoading,
                        expandedSections, requests, clickedPage>>

\* extractOutline after its await with the finally block left out
ExtractOutlineSettleNoFinally(response) ==
    /\ requests # <<>>
    /\ requests' = Tail(requests)
    /\ IF response.threw
       THEN viewerError' = ErrProcessing(response.message) /\ UNCHANGED outline
       ELSE IF response.success
            THEN outline' = response.result /\ UNCHANGED viewerError
            ELSE viewerError' = ErrExtractFailed /\ UNCHANGED outline
    /\ UNCHANGED <<pdfFile, pdfUrl, viewerLoading, expandedSections,
                   clickedPage>>

\* extractOutline after its await, lines 69-78
ExtractOutlineSettle(response) ==
    /\ requests # <<>>
    /\ requests' = Tail(requests)
    /\ IF response.threw
       THEN viewerError' = ErrProcessing(response.message) /\ UNCHANGED outline
       ELSE IF response.success
            THEN outline' = response.result /\ UNCHANGED viewerError
            ELSE viewerError' = ErrExtractFailed /\ UNCHANGED outline
    /\ viewerLoading' = FALSE
    /\ UNCHANGED <<pdfFile, pdfUrl, expandedSections, clickedPage>>

\* ItemKey with the key of the parent left out of the key of a child
ItemKeyWithoutParent(parentKey, i) == ToString(i)

\* the key renderOutlineItem gives a node: the index for a top-level node
\* (line 189), `${index}-${childIndex}` below it (line 142).  A top-level
\* key is a number in the code and its decimal digits here: no key of a
\* child is without "-", so the two never meet.
ItemKey(parentKey, i) ==
    IF parentKey = "" THEN ToString(i) ELSE parentKey \o "-" \o ToString(i)

RECURSIVE RenderedIgnoringExpanded(_, _, _)
\* Rendered with the children of every node rendered, expanded or not
RenderedIgnoringExpanded(items, parentKey, expanded) ==
    UNION { LET k == ItemKey(parentKey, i)
                item == items[i + 1]
            IN  {[key |-> k, item |-> item]} \cup
                (IF Len(item.children) > 0
                 THEN RenderedIgnoringExpanded(item.children, k, expanded)
                 ELSE {}) : i \in 0..(Len(items) - 1) }

RECURSIVE Rendered(_, _, _)
\* renderOutlineItem, lines 104-148, over a list of nodes: the nodes that are
\* rendered, each with its key
Rendered(items, parentKey, expanded) ==
    UNION { LET k == ItemKey(parentKey, i)
                item == items[i + 1]
            IN  {[key |-> k, item |-> item]} \cup
                (IF Len(item.children) > 0 /\ k \in expanded
                 THEN Rendered(item.children, k, expanded)
                 ELSE {}) : i \in 0..(Len(items) - 1) }

\* the nodes on the page, lines 185-192
RenderedItems ==
    IF outline = Null THEN {}
    ELSE Rendered(outline[1].outline, "", expandedSections)

\* newExpanded of toggleSection, lines 82-87
Toggled(expanded, index) ==
    IF index \in expanded THEN expanded \ {index} ELSE expanded \cup {index}

\* toggleSection, lines 81-89, as the chevron button calls it, lines 119-122:
\* stopPropagation keeps the click from the item's own onClick
ToggleSection(index) ==
    /\ expandedSections' = Toggled(expandedSections, index)
    /\ UNCHANGED <<pdfFile, pdfUrl, outline, viewerLoading, viewerError,
                   requests, clickedPage>>

\* navigateToPage, lines 91-100, as a click on an item calls it, line 113.
\* The ref holds the div of lines 200-204, which has no getAPIs: line 94
\* throws a TypeError in the click handler and no state of the page changes.
NavigateToPage(pageNumber) ==
    /\ clickedPage' = Some(pageNumber)
    /\ UNCHANGED <<pdfFile, pdfUrl, outline, viewerLoading, viewerError,
                   expandedSections, requests>>

\* the dropzone rendered whether or not a file is held
DropzoneAlwaysRendered == TRUE

\* the dropzone is rendered while no file is held, lines 157-170; so is the
\* Choose PDF File button, lines 198-224, which clicks the dropzone's input
DropzoneRendered == pdfFile = Null

\* the chevron button of a rendered node that has children, lines 117-131
ToggleButtons ==
    {r.key : r \in {x \in RenderedItems : Len(x.item.children) > 0}}

(***************************************************************************)
(* The Hierarchy Assigner of the engine (backend/), after the design       *)
(* document, section 4.3 and the design notes: a stack-based tree builder  *)
(* over an arena of nodes.                                                 *)
(***************************************************************************)
\* the longest candidate list
MaxCands == 3

\* Inputs: heading candidates: font size, depth of a numbered pattern (0 when
\* there is none) and confidence in hundredths
Cand(text, size, depth, conf) ==
    [text |-> text, size |-> size, depth |-> depth, conf |-> conf]

CandSet ==
    { Cand("Company Report", 16, 0, 90),
      Cand("Annex", 16, 0, 60),
      Cand("Overview", 14, 0, 60),
      Cand("Background", 12, 0, 60),
      Cand("Remarks", 10, 0, 60),
      Cand("2. Results", 14, 1, 95),
      Cand("1.1 Scope", 14, 2, 70),
      Cand("1.2.3.4 Detail", 12, 4, 70) }

CandLists == UNION {[1..n -> CandSet] : n \in 0..MaxCands}

\* two candidates to a page, in page order
PageOf(i) == (i + 1) \div 2

MaxSize(cs) ==
    CHOOSE m \in {cs[i].size : i \in 1..Len(cs)} :
        \A i \in 1..Len(cs) : cs[i].size <= m

\* the highest-confidence candidate, the first of them in reading order
BestCandidate(cs) ==
    CHOOSE i \in 1..Len(cs) :
        /\ \A j \in 1..Len(cs) : cs[j].conf <= cs[i].conf
        /\ \A j \in 1..(i - 1) : cs[j].conf < cs[i].conf

\* step 1: the highest-confidence candidate is the title if it comes before
\* every other candidate and has the largest font size of the document
HasTitle(cs) ==
    /\ cs # <<>>
    /\ BestCandidate(cs) = 1
    /\ cs[1].size = MaxSize(cs)

TitleText(cs) == IF HasTitle(cs) THEN cs[1].text ELSE ""

\* where the candidates left after step 1 start
FirstHeading(cs) == IF HasTitle(cs) THEN 2 ELSE 1

\* the font sizes of the candidates left after step 1
HeadingSizes(cs) == {cs[i].size : i \in FirstHeading(cs)..Len(cs)}

\* the bucket of a font size: its rank among the sizes, largest first
SizeRank(cs, size) == Cardinality({z \in HeadingSizes(cs) : z > size}) + 1

Min(a, b) == IF a < b THEN a ELSE b

\* step 2 with neither the three buckets nor the cap at H3
LevelDepthUncapped(cs, i) ==
    IF cs[i].depth > 0 THEN cs[i].depth ELSE SizeRank(cs, cs[i].size)

\* step 2: at most three buckets by descending size; the depth of a numbered
\* pattern overrides the bucket, capped at H3
LevelDepth(cs, i) ==
    IF cs[i].depth > 0 THEN Min(cs[i].depth, 3)
    ELSE Min(SizeRank(cs, cs[i].size), 3)

LevelName(depth) == IF depth = 0 THEN "Title" ELSE "H" \o ToString(depth)

DepthOfLevel(level) ==
    CASE level = "Title" -> 0
      [] level = "H1" -> 1
      [] level = "H2" -> 2
      [] level = "H3" -> 3
      [] OTHER -> 4

RECURSIVE CloseOpenKeepingEqual(_, _, _)
\* CloseOpen that leaves an open node of the same level open
CloseOpenKeepingEqual(stack, arena, depth) ==
    IF stack # <<>> /\ arena[stack[Len(stack)]].depth > depth
    THEN CloseOpenKeepingEqual(SubSeq(stack, 1, Len(stack) - 1), arena, depth)
    ELSE stack

RECURSIVE CloseOpen(_, _, _)
\* step 3: the open nodes that are not strictly shallower than the new node
\* are closed
CloseOpen(stack, arena, depth) ==
    IF stack # <<>> /\ arena[stack[Len(stack)]].depth >= depth
    THEN CloseOpen(SubSeq(stack, 1, Len(stack) - 1), arena, depth)
    ELSE stack

\* the root of the arena: the one Title node, which may be the empty string
TitleNode(cs) ==
    [level |-> "Title", depth |-> 0, text |-> TitleText(cs), page |-> 1,
     parent |-> 0]

HierarchyInit ==
    /\ candidates = <<>>
    /\ nodes = << TitleNode(<<>>) >>
    /\ openStack = <<>>
    /\ cursor = 1

\* a document's candidates arrive: the state before the first is placed
HierarchyStart ==
    /\ candidates \in CandLists
    /\ nodes = << TitleNode(candidates) >>
    /\ openStack = <<>>
    /\ cursor = FirstHeading(candidates)

\* step 3 for the next candidate: it becomes a child of the most recent open
\* node with a strictly shallower level, or of the root when none is open
PlaceNext ==
    /\ cursor <= Len(candidates)
    /\ LET d == LevelDepth(candidates, cursor)
           open == CloseOpen(openStack, nodes, d)
           node == [level |-> LevelName(d), depth |-> d,
                    text |-> candidates[cursor].text,
                    page |-> PageOf(cursor),
                    parent |-> IF open = <<>> THEN 1 ELSE open[Len(open)]]
       IN  /\ nodes' = Append(nodes, node)
           /\ openStack' = Append(open, Len(nodes) + 1)
    /\ cursor' = cursor + 1
    /\ UNCHANGED candidates

(***************************************************************************)
(* The documented scoring rule (Technical Approach, "Relevance Ranking     *)
(* Algorithm"): Importance_Rank = Similarity_Score x Level_Multiplier,     *)
(* the multipliers in tenths.                                              *)
(***************************************************************************)
LevelMultiplier(level) ==
    CASE level = "H1" -> 12
      [] level = "H2" -> 10
      [] level = "H3" -> 8

(***************************************************************************)
(* The Batch Orchestrator of the engine (backend/) with the stages it      *)
(* runs, after the design document, sections 4.4 to 4.7 and 5.             *)
(***************************************************************************)
\* the workers that may run at once
PoolSize == 2

MinBatchDocs == 3
MaxBatchDocs == 10
\* the N of the Sub-section Synthesizer
TopN == 5
\* the thresholds of the relevance bands, in thousandths
HighBand == 850
ModerateBand == 600

Sec(level, page, title, cosine) ==
    [level |-> level, page |-> page, section_title |-> title, cosine |-> cosine]

\* Inputs: documents: whether the PDF can be read, and the sections of its
\* outline in outline order, each with the cosine similarity (in hundredths)
\* the embedding engine finds for it
DocA ==
    [readable |-> TRUE,
     sections |-> << Sec("H1", 1, "Methods", 50), Sec("H2", 2, "Sampling", 60),
                     Sec("H3", 3, "Assay", 75) >>]
DocB ==
    [readable |-> TRUE,
     sections |-> << Sec("H1", 1, "Methodology", 50),
                     Sec("H2", 4, "Results", 90) >>]
DocC ==
    [readable |-> TRUE,
     sections |-> << Sec("H2", 2, "Protocol", 60), Sec("H2", 2, "Controls", 60),
                     Sec("H2", 1, "Abstract", 60), Sec("H3", 5, "Licence", -20) >>]
DocLocked == [readable |-> FALSE, sections |-> <<>>]

\* Inputs: requests
Request(docs, persona, job) ==
    [documents |-> [i \in 1..Len(docs) |->
                        [name |-> FileName(i), readable |-> docs[i].readable,
                         sections |-> docs[i].sections]],
     persona |-> persona, job |-> job]

Requests ==
    { Request(<<DocA, DocB, DocC>>, <<"a">>, <<"a">>),
      Request(<<DocC, DocB, DocA>>, <<"a">>, <<"a">>),
      Request(<<DocA, DocLocked, DocB>>, <<"a">>, <<"a">>),
      Request(<<DocLocked, DocC, DocA, DocB>>, <<"a">>, <<"a">>),
      Request(<<DocA, DocB>>, <<"a">>, <<"a">>),
      Request([i \in 1..(MaxBatchDocs + 1) |-> DocLocked], <<"a">>, <<"a">>),
      Request(<<DocA, DocB, DocC>>, <<" ">>, <<"a">>),
      Request(<<DocA, DocB, DocC>>, <<"a">>, <<>>) }

BatchInit ==
    /\ batchState = "Received"
    /\ request = Request(<<>>, <<>>, <<>>)
    /\ workers = <<>>
    /\ docErrors = <<>>
    /\ pool = <<>>
    /\ scored = <<>>
    /\ ranked = <<>>
    /\ subAnalyses = <<>>
    /\ batchError = NoError

\* a request is received
BatchStart ==
    /\ batchState = "Received"
    /\ request \in Requests
    /\ workers = [i \in 1..Len(request.documents) |-> "queued"]
    /\ docErrors = [i \in 1..Len(request.documents) |-> NoError]
    /\ pool = <<>>
    /\ scored = <<>>
    /\ ranked = <<>>
    /\ subAnalyses = <<>>
    /\ batchError = NoError

Receive ==
    /\ batchState = "Received"
    /\ batchState' = "Validating"
    /\ UNCHANGED <<request, workers, docErrors, pool, scored, ranked,
                   subAnalyses, batchError>>

\* Validating: InvalidBatchSize outside [3,10], MissingPersonaInput for a
\* blank persona or job
Validate ==
    /\ batchState = "Validating"
    /\ IF Len(request.documents) < MinBatchDocs
          \/ Len(request.documents) > MaxBatchDocs
       THEN batchState' = "Failed" /\ batchError' = "InvalidBatchSize"
       ELSE IF Blank(request.persona) \/ Blank(request.job)
            THEN batchState' = "Failed" /\ batchError' = "MissingPersonaInput"
            ELSE batchState' = "Extracting" /\ UNCHANGED batchError
    /\ UNCHANGED <<request, workers, docErrors, pool, scored, ranked,
                   subAnalyses>>

Running == {i \in 1..Len(workers) : workers[i] = "running"}

\* a worker of the pool takes a document
StartWorker(i) ==
    /\ batchState = "Extracting"
    /\ workers[i] = "queued"
    /\ Cardinality(Running) < PoolSize
    /\ workers' = [workers EXCEPT ![i] = "running"]
    /\ UNCHANGED <<batchState, request, docErrors, pool, scored, ranked,
                   subAnalyses, batchError>>

\* the sections of document i as the pipeline hands them over
SectionsOf(i) ==
    LET doc == request.documents[i] IN
    [k \in 1..Len(doc.sections) |->
        [document |-> doc.name, docIndex |-> i,
         page |-> doc.sections[k].page,
         section_title |-> doc.sections[k].section_title,
         level |-> doc.sections[k].level,
         cosine |-> doc.sections[k].cosine]]

\* FailWorker that lets the failure of a document fail the batch
FailWorkerAbortsBatch(i, err) ==
    /\ batchState = "Extracting"
    /\ workers[i] = "running"
    /\ err = IF request.documents[i].readable THEN "PerDocumentTimeout"
             ELSE "UnreadablePDF"
    /\ workers' = [workers EXCEPT ![i] = "failed"]
    /\ docErrors' = [docErrors EXCEPT ![i] = err]
    /\ batchState' = "Failed"
    /\ batchError' = err
    /\ UNCHANGED <<request, pool, scored, ranked, subAnalyses>>

\* the extraction of document i fails: the error is recorded for the
\* document and the batch goes on
FailWorker(i, err) ==
    /\ batchState = "Extracting"
    /\ workers[i] = "running"
    /\ err = IF request.documents[i].readable THEN "PerDocumentTimeout"
             ELSE "UnreadablePDF"
    /\ workers' = [workers EXCEPT ![i] = "failed"]
    /\ docErrors' = [docErrors EXCEPT ![i] = err]
    /\ UNCHANGED <<batchState, request, pool, scored, ranked, subAnalyses,
                   batchError>>

\* the extraction of document i succeeds: its sections join the pool
FinishWorker(i) ==
    /\ batchState = "Extracting"
    /\ workers[i] = "running"
    /\ request.documents[i].readable
    /\ workers' = [workers EXCEPT ![i] = "extracted"]
    /\ pool' = pool \o SectionsOf(i)
    /\ UNCHANGED <<batchState, request, docErrors, scored, ranked, subAnalyses,
                   batchError>>

\* every document is extracted or has failed
FinishExtracting ==
    /\ batchState = "Extracting"
    /\ \A i \in 1..Len(workers) : workers[i] \in {"extracted", "failed"}
    /\ batchState' = "Embedding"
    /\ UNCHANGED <<request, workers, docErrors, pool, scored, ranked,
                   subAnalyses, batchError>>

\* 4.4: the cosine similarity, clipped to [0,1]
Clip(cosine) == IF cosine < 0 THEN 0 ELSE IF cosine > 100 THEN 100 ELSE cosine

\* 4.4: every section with its similarity to the query
Score(sections) ==
    [k \in 1..Len(sections) |->
        [document |-> sections[k].document,
         docIndex |-> sections[k].docIndex,
         page |-> sections[k].page,
         section_title |-> sections[k].section_title,
         level |-> sections[k].level,
         similarity_score |-> Clip(sections[k].cosine)]]

FinishEmbedding ==
    /\ batchState = "Embedding"
    /\ scored' = Score(pool)
    /\ batchState' = "Ranking"
    /\ UNCHANGED <<request, workers, docErrors, pool, ranked, subAnalyses,
                   batchError>>

\* 4.5: importance = similarity_score x level_multiplier, in thousandths
Importance(section) ==
    section.similarity_score * LevelMultiplier(section.level)

\* Before without the tie-break on the document index
BeforeIgnoringUploadOrder(a, b) ==
    \/ a.importance_rank > b.importance_rank
    \/ /\ a.importance_rank = b.importance_rank
       /\ \/ a.similarity_score > b.similarity_score
          \/ /\ a.similarity_score = b.similarity_score
             /\ a.page < b.page

\* 4.5: a comes before b: higher importance; then higher raw similarity,
\* then earlier document in upload order, then earlier page
Before(a, b) ==
    \/ a.importance_rank > b.importance_rank
    \/ /\ a.importance_rank = b.importance_rank
       /\ \/ a.similarity_score > b.similarity_score
          \/ /\ a.similarity_score = b.similarity_score
             /\ \/ a.docIndex < b.docIndex
                \/ /\ a.docIndex = b.docIndex
                   /\ a.page < b.page

\* where section k goes: after the sections that come before it, and after
\* the earlier ones of those it ties with on every key (a stable sort)
PositionOf(sections, k) ==
    1 + Cardinality({j \in 1..Len(sections) :
            \/ Before(sections[j], sections[k])
            \/ ~Before(sections[k], sections[j]) /\ j < k})

SortRanked(sections) ==
    [p \in 1..Len(sections) |->
        sections[CHOOSE k \in 1..Len(sections) : PositionOf(sections, k) = p]]

\* the Relevance Ranker: the sections with their importance, sorted
Rank(sections) ==
    SortRanked([k \in 1..Len(sections) |->
        [document |-> sections[k].document,
         docIndex |-> sections[k].docIndex,
         page |-> sections[k].page,
         section_title |-> sections[k].section_title,
         level |-> sections[k].level,
         similarity_score |-> sections[k].similarity_score,
         importance_rank |-> Importance(sections[k])]])

FinishRanking ==
    /\ batchState = "Ranking"
    /\ ranked' = Rank(scored)
    /\ batchState' = "Synthesizing"
    /\ UNCHANGED <<request, workers, docErrors, pool, scored, subAnalyses,
                   batchError>>

\* 4.6: the band of an importance
RelevanceBand(importance) ==
    IF importance >= HighBand THEN "high"
    ELSE IF importance >= ModerateBand THEN "moderate"
    ELSE "low"

\* 4.6: the templated explanations of the top-N ranked sections
Synthesize(sections) ==
    [k \in 1..Min(TopN, Len(sections)) |->
        [document |-> sections[k].document,
         page |-> sections[k].page,
         original_title |-> sections[k].section_title,
         refined_text |-> [title |-> sections[k].section_title,
                           page |-> sections[k].page,
                           band |-> RelevanceBand(sections[k].importance_rank)]]]

FinishSynthesizing ==
    /\ batchState = "Synthesizing"
    /\ subAnalyses' = Synthesize(ranked)
    /\ batchState' = "Completed"
    /\ UNCHANGED <<request, workers, docErrors, pool, scored, ranked,
                   batchError>>

\* the wall-clock budget of the batch runs out before Completed
BudgetExceeded ==
    /\ batchState \in {"Extracting", "Embedding", "Ranking", "Synthesizing"}
    /\ batchState' = "Failed"
    /\ batchError' = "BudgetExceeded"
    /\ UNCHANGED <<request, workers, docErrors, pool, scored, ranked,
                   subAnalyses>>

\* the steps of the batch other than the budget running out
BatchProgress ==
    \/ Receive /\ UNCHANGED outsideBatch
    \/ Validate /\ UNCHANGED outsideBatch
    \/ \E i \in 1..Len(workers) : StartWorker(i) /\ UNCHANGED outsideBatch
    \/ \E i \in 1..Len(workers) :
        \E err \in {"UnreadablePDF", "PerDocumentTimeout"} :
            FailWorker(i, err) /\ UNCHANGED outsideBatch
    \/ \E i \in 1..Len(workers) : FinishWorker(i) /\ UNCHANGED outsideBatch
    \/ FinishExtracting /\ UNCHANGED outsideBatch
    \/ FinishEmbedding /\ UNCHANGED outsideBatch
    \/ FinishRanking /\ UNCHANGED outsideBatch
    \/ FinishSynthesizing /\ UNCHANGED outsideBatch

BatchNext ==
    \/ BatchProgress
    \/ BudgetExceeded /\ UNCHANGED outsideBatch

InitBatch ==
    /\ PersonaInit
    /\ ViewerInit
    /\ HierarchyInit
    /\ BatchStart

\* the workers and the stages keep running: a step that stays possible is
\* taken
SpecBatch == InitBatch /\ [][BatchNext]_vars /\ WF_vars(BatchProgress)

HierarchyNext ==
    PlaceNext /\ UNCHANGED outsideHierarchy

InitHierarchy ==
    /\ PersonaInit
    /\ ViewerInit
    /\ HierarchyStart
    /\ BatchInit

SpecHierarchy == InitHierarchy /\ [][HierarchyNext]_vars

Init ==
    /\ PersonaInit
    /\ ViewerInit
    /\ HierarchyInit
    /\ BatchInit

(***************************************************************************)
(* The persona-analysis page: every handler, handleAnalysis called in any  *)
(* state, with at most MaxPending timers running.                          *)
(***************************************************************************)
TimerRoom ==
    \/ Len(pending) < MaxPending
    \/ ValidationError(pdfFiles, personaDescription, jobToBeDone) # NoError

Next ==
    \/ \E d \in Drops : OnDrop(d) /\ UNCHANGED outsidePersona
    \/ \E i \in RemoveChoices : RemoveFile(i) /\ UNCHANGED outsidePersona
    \/ \E t \in Texts : SetPersonaDescription(t) /\ UNCHANGED outsidePersona
    \/ \E t \in Texts : SetJobToBeDone(t) /\ UNCHANGED outsidePersona
    \/ TimerRoom /\ HandleAnalysis /\ UNCHANGED outsidePersona
    \/ FinishAnalysis /\ UNCHANGED outsidePersona

Spec == Init /\ [][Next]_vars

(***************************************************************************)
(* The persona-analysis page as its controls are rendered: handleAnalysis  *)
(* is called by a click on the Start button, which a disabled button does  *)
(* not receive.  The timer of line 106 fires.                              *)
(***************************************************************************)
TimerFires == FinishAnalysis /\ UNCHANGED outsidePersona

PageNext ==
    \/ \E d \in Drops : OnDrop(d) /\ UNCHANGED outsidePersona
    \/ \E i \in RemoveChoices : RemoveFile(i) /\ UNCHANGED outsidePersona
    \/ \E t \in Texts : SetPersonaDescription(t) /\ UNCHANGED outsidePersona
    \/ \E t \in Texts : SetJobToBeDone(t) /\ UNCHANGED outsidePersona
    \/ ~StartDisabled /\ HandleAnalysis /\ UNCHANGED outsidePersona
    \/ TimerFires

SpecPage == Init /\ [][PageNext]_vars /\ WF_vars(TimerFires)

(***************************************************************************)
(* The PDF viewer page, as its controls are rendered.                      *)
(***************************************************************************)
ViewerNext ==
    \/ \E d \in ViewerDrops :
        DropzoneRendered /\ ViewerOnDrop(d) /\ UNCHANGED outsideViewer
    \/ \E r \in Responses : ExtractOutlineSettle(r) /\ UNCHANGED outsideViewer
    \/ \E k \in ToggleButtons : ToggleSection(k) /\ UNCHANGED outsideViewer
    \/ \E r \in RenderedItems :
        NavigateToPage(r.item.page) /\ UNCHANGED outsideViewer

SpecViewer == Init /\ [][ViewerNext]_vars

(***************************************************************************)
(* The file list alone: drops of every size up to MaxDrop and the Remove   *)
(* button of any listed file.                                              *)
(***************************************************************************)
AllDrops == {AllPdfDrop(n) : n \in 0..MaxDrop} \cup {MixedDrop(n) : n \in 0..MaxDrop}

FilesNext ==
    \/ \E d \in AllDrops : OnDrop(d) /\ UNCHANGED outsidePersona
    \/ \E i \in 0..(MaxDropFiles - 1) : RemoveFile(i) /\ UNCHANGED outsidePersona

SpecFiles == Init /\ [][FilesNext]_vars

(***************************************************************************)
(* Properties of the persona-analysis page.                                *)
(***************************************************************************)
\* every analysis result there is: the one shown and the ones under way
Results == {analysis[i] : i \in 1..Len(analysis)} \cup
           {pending[i] : i \in 1..Len(pending)}

\* empty or whitespace only, read off the characters
AllWhiteSpace(s) == \A i \in 1..Len(s) : s[i] \in {" ", "\t", "\n"}

\* the files of a drop whose type is application/pdf, in the drop's order
PdfsOf(files) == SelectSeq(files, LAMBDA f : f.type = "application/pdf")

\* C1: an analysis is started (loading is set and a result is later
\* produced) only with 3 to 10 selected documents; with any other number of
\* documents handleAnalysis ends with an error set and starts nothing.
C1_AnalysisOnlyForThreeToTen ==
    [][ /\ (Len(pending') > Len(pending) \/ (loading' /\ ~loading))
            => Len(pdfFiles) \in 3..10
        /\ (analysis' # analysis)
            => Len(analysis'[1].metadata.documents) \in 3..10
        /\ (HandleAnalysis /\ Len(pdfFiles) \notin 3..10)
            => /\ error' # NoError
               /\ pending' = pending
               /\ loading' = loading
               /\ analysis' = analysis ]_vars

\* C1's case: a result is shown, a file was then removed so that two are
\* left, and the request made with them was refused
C1_Witness ==
    /\ analysis # Null
    /\ Len(pdfFiles) = 2
    /\ error = ErrTooFewFiles
    /\ pending = <<>>

\* C2: a request made with a blank persona text or a blank job text ends
\* with the missing-persona-input error; it does not set loading, starts no
\* analysis, and leaves the selected files and the shown result as they were.
C2_BlankTextIsRefused ==
    [][ (HandleAnalysis /\ (AllWhiteSpace(personaDescription)
                            \/ AllWhiteSpace(jobToBeDone)))
            => /\ error' = ErrMissingPersona
               /\ loading' = loading
               /\ pending' = pending
               /\ analysis' = analysis
               /\ pdfFiles' = pdfFiles ]_vars

\* C2's case: with enough files selected and a result shown, a request made
\* with a persona text of one space was refused
C2_Witness ==
    /\ error = ErrMissingPersona
    /\ personaDescription = <<" ">>
    /\ ~AllWhiteSpace(jobToBeDone)
    /\ Len(pdfFiles) >= 3
    /\ analysis # Null
    /\ ~loading

\* C3: in every analysis result, every extracted section's importance_rank
\* is its similarity_score times the multiplier of its level (hundredths
\* times tenths on the right, so the rank is brought to thousandths).
C3_ImportanceIsSimilarityTimesMultiplier ==
    \A r \in Results : \A i \in 1..Len(r.extracted_sections) :
        LET e == r.extracted_sections[i] IN
        e.importance_rank * 10 = e.similarity_score * LevelMultiplier(e.level)

\* C4: in every analysis result, extracted_sections is in descending order
\* of importance_rank: an entry of greater importance_rank comes first.
C4_SectionsSortedByImportance ==
    \A r \in Results : \A i, j \in 1..Len(r.extracted_sections) :
        r.extracted_sections[i].importance_rank
            > r.extracted_sections[j].importance_rank => i < j

\* C4's case: an analysis has completed and its result is shown
C4_Witness ==
    /\ analysis # Null
    /\ Len(analysis[1].extracted_sections) >= 2

\* the band of an importance in hundredths
BandOf(importance) ==
    IF importance >= 85 THEN "highly"
    ELSE IF importance >= 60 THEN "moderately"
    ELSE "marginally"

\* C5: every sub-section analysis describes an extracted section (same
\* document, page and title), its text names that section's title and page,
\* and the band in its text is the one of that section's importance: high
\* from 0.85, moderate from 0.6, low below.
C5_BandFollowsImportance ==
    \A r \in Results : \A i \in 1..Len(r.sub_section_analyses) :
        LET a == r.sub_section_analyses[i] IN
        \E k \in 1..Len(r.extracted_sections) :
            LET e == r.extracted_sections[k] IN
            /\ e.document = a.document
            /\ e.page = a.page
            /\ e.section_title = a.original_title
            /\ a.refined_text.title = e.section_title
            /\ a.refined_text.page = e.page
            /\ a.refined_text.band = BandOf(e.importance_rank)

\* C9: when the outline request settles, loading is false; a response whose
\* success flag is false, or a request that throws, sets the error message
\* and leaves the outline as it was; a successful response sets the outline
\* to the result.
C9_ExtractionFailureIsAnErrorValue ==
    [][ \A r \in Responses : ExtractOutlineSettle(r) =>
            /\ viewerLoading' = FALSE
            /\ IF ~r.threw /\ r.success
               THEN outline' = r.result
               ELSE /\ viewerError' # NoError
                    /\ (r.threw => viewerError' = ErrProcessing(r.message))
                    /\ outline' = outline ]_vars

\* C9's case: a PDF was accepted and its request failed: the error is set,
\* there is no outline, and the page is not loading
C9_Witness ==
    /\ pdfFile # Null
    /\ requests = <<>>
    /\ viewerError = ErrExtractFailed
    /\ outline = Null
    /\ ~viewerLoading

\* C6: every outline the hierarchy assigner builds is a tree: every node's
\* level is Title, H1, H2 or H3, exactly one node is the Title, and every
\* other node has a parent placed before it whose level is strictly
\* shallower.
C6_OutlineIsALeveledTree ==
    /\ \A i \in 1..Len(nodes) : nodes[i].level \in {"Title", "H1", "H2", "H3"}
    /\ Cardinality({i \in 1..Len(nodes) : nodes[i].level = "Title"}) = 1
    /\ \A i \in 1..Len(nodes) :
        nodes[i].level # "Title" =>
            /\ nodes[i].parent \in 1..(i - 1)
            /\ DepthOfLevel(nodes[nodes[i].parent].level)
                < DepthOfLevel(nodes[i].level)

\* C6's case: all of three candidates are placed, a fourth font size and a
\* numbering of depth 4 among them, the last under an H2 that is under an H1
C6_Witness ==
    /\ cursor > Len(candidates)
    /\ Len(nodes) = 4
    /\ nodes[1].text = ""
    /\ nodes[2].level = "H1" /\ nodes[2].parent = 1
    /\ nodes[3].level = "H2" /\ nodes[3].parent = 2
    /\ nodes[4].level = "H3" /\ nodes[4].parent = 3
    /\ candidates[3].depth = 4

RECURSIVE UploadOrderPool(_)
\* the sections of the extracted documents among the first n, in upload order
UploadOrderPool(n) ==
    IF n = 0 THEN <<>>
    ELSE UploadOrderPool(n - 1)
         \o (IF workers[n] = "extracted" THEN SectionsOf(n) ELSE <<>>)

\* the ranked sections of document i
RankedOf(i) == {k \in 1..Len(ranked) : ranked[k].docIndex = i}

SomeDocumentFailed == \E i \in 1..Len(workers) : workers[i] = "failed"

C7_FailuresAreIsolated ==
    /\ batchState = "Failed" =>
        batchError \in {"InvalidBatchSize", "MissingPersonaInput", "BudgetExceeded"}
    /\ batchState = "Completed" =>
        \A i \in 1..Len(workers) :
            \/ /\ workers[i] = "extracted"
               /\ docErrors[i] = NoError
               /\ Cardinality(RankedOf(i)) = Len(request.documents[i].sections)
            \/ /\ workers[i] = "failed"
               /\ docErrors[i] \in {"UnreadablePDF", "PerDocumentTimeout"}
               /\ ~request.documents[i].readable => docErrors[i] = "UnreadablePDF"
               /\ RankedOf(i) = {}

\* C7: the failure of one document's extraction does not abort the batch or
\* touch its peers: the batch fails only for a whole-batch reason, the step
\* that records the failure leaves the batch state, the other workers and
\* the pool alone, a batch in which a document failed goes on to Completed
\* (unless the budget runs out), and at Completed the ranked sections are
\* those of the extracted documents and every failed document carries its
\* error.
C7_DocumentFailureDoesNotAbortBatch ==
    /\ []C7_FailuresAreIsolated
    /\ [][ \A i \in 1..Len(workers) :
            (workers[i] = "running" /\ workers'[i] = "failed") =>
                /\ batchState' = batchState
                /\ pool' = pool
                /\ \A j \in 1..Len(workers) : j # i => workers'[j] = workers[j]
         ]_vars
    /\ (SomeDocumentFailed
            ~> (batchState = "Completed" \/ batchError = "BudgetExceeded"))

\* C7's case: a batch of four documents, the first password-protected, has
\* completed
C7_Witness ==
    /\ batchState = "Completed"
    /\ Len(workers) = 4
    /\ docErrors[1] = "UnreadablePDF"
    /\ \A i \in 2..4 : workers[i] = "extracted"
    /\ ranked # <<>>

\* a comes before b by the tie-break chain
ChainBefore(a, b) ==
    \/ a.importance_rank > b.importance_rank
    \/ /\ a.importance_rank = b.importance_rank
       /\ a.similarity_score > b.similarity_score
    \/ /\ a.importance_rank = b.importance_rank
       /\ a.similarity_score = b.similarity_score
       /\ a.docIndex < b.docIndex
    \/ /\ a.importance_rank = b.importance_rank
       /\ a.similarity_score = b.similarity_score
       /\ a.docIndex = b.docIndex
       /\ a.page < b.page

\* C8: the ranked sections are ordered by importance and, among sections of
\* equal importance, by higher similarity, then earlier document in upload
\* order, then earlier page; and they are the same list whatever order the
\* extractions finished in: the one the ranker gives for the sections taken
\* in upload order.
C8_RankingIsDeterministic ==
    batchState \in {"Synthesizing", "Completed"} =>
        /\ \A i, j \in 1..Len(ranked) :
            ChainBefore(ranked[i], ranked[j]) => i < j
        /\ ranked = Rank(Score(UploadOrderPool(Len(workers))))

\* C8's case: the third document was extracted first and the first last,
\* and two sections of different documents tie on importance and similarity
C8_Witness ==
    /\ batchState = "Completed"
    /\ Len(pool) >= 2
    /\ pool[1].docIndex = 3
    /\ pool[Len(pool)].docIndex = 1
    /\ \E i, j \in 1..Len(ranked) :
        /\ ranked[i].docIndex # ranked[j].docIndex
        /\ ranked[i].importance_rank = ranked[j].importance_rank
        /\ ranked[i].similarity_score = ranked[j].similarity_score

\* C10: a drop with fewer than 3 or more than 10 PDFs sets an error and
\* leaves the selected files as they were; a drop with 3 to 10 PDFs makes
\* exactly those PDFs the selected files and clears the error.
C10_DropReplacesOrIsRefused ==
    [][ \A d \in AllDrops : OnDrop(d) =>
            IF Len(PdfsOf(d)) < 3 \/ Len(PdfsOf(d)) > 10
            THEN error' # NoError /\ pdfFiles' = pdfFiles
            ELSE pdfFiles' = PdfsOf(d) /\ error' = NoError ]_vars

\* C10's case: a drop of 3 to 10 PDFs was taken, one of its files was
\* removed, and a drop of more than 10 PDFs was then refused
C10_Witness ==
    /\ error = ErrDropMax
    /\ Len(pdfFiles) = 4
    /\ pdfFiles[1].name = FileName(2)

(***************************************************************************)
(* Properties of the PDF viewer page.                                      *)
(***************************************************************************)
\* C11: a drop on the viewer looks at its first file alone: a request for
\* that file is issued if it exists and has type application/pdf; otherwise
\* an error is set, no request is issued, and the file, the viewer URL and
\* the outline stay as they were.
C11_OnlyAFirstPdfIsRequested ==
    [][ \A d \in ViewerDrops : ViewerOnDrop(d) =>
            IF Len(d) > 0 /\ d[1].type = "application/pdf"
            THEN /\ requests' = Append(requests, d[1])
                 /\ pdfFile' = <<d[1]>>
            ELSE /\ viewerError' # NoError
                 /\ requests' = requests
                 /\ pdfFile' = pdfFile
                 /\ pdfUrl' = pdfUrl
                 /\ outline' = outline ]_vars

\* C11's case: a drop was refused: no file is held and nothing was requested
C11_Witness ==
    /\ viewerError = ErrInvalidPdf
    /\ pdfFile = Null
    /\ pdfUrl = Null
    /\ requests = <<>>

(***************************************************************************)
(* Properties of the persona-analysis page as its controls are rendered.   *)
(***************************************************************************)
\* C12: an analysis that passes validation sets loading, and loading
\* becomes false again; at the step that makes it false a result or an
\* error is set.
C12_AnalysisEventuallyFinishes ==
    /\ [][ (HandleAnalysis
            /\ ValidationError(pdfFiles, personaDescription, jobToBeDone)
                = NoError) => loading' ]_vars
    /\ [][ (loading /\ ~loading') => (analysis' # Null \/ error' # NoError) ]_vars
    /\ (loading ~> ~loading)

\* C12's case: an analysis was started and has finished with its result
C12_Witness ==
    /\ ~loading
    /\ pending = <<>>
    /\ analysis # Null
    /\ error = NoError
    /\ Len(analysis[1].metadata.documents) >= 3

\* C13: in every analysis result the sub_section_analyses are at most 5 and
\* the i-th has the document, page and title of the i-th extracted section.
C13_SubSectionsArePrefixOfRanked ==
    \A r \in Results :
        /\ Len(r.sub_section_analyses) <= 5
        /\ Len(r.sub_section_analyses) <= Len(r.extracted_sections)
        /\ \A i \in 1..Len(r.sub_section_analyses) :
            /\ r.sub_section_analyses[i].document
                = r.extracted_sections[i].document
            /\ r.sub_section_analyses[i].page = r.extracted_sections[i].page
            /\ r.sub_section_analyses[i].original_title
                = r.extracted_sections[i].section_title

\* C13's case: a result with two analyses over three sections is shown
C13_Witness ==
    /\ analysis # Null
    /\ Len(analysis[1].sub_section_analyses) = 2
    /\ Len(analysis[1].extracted_sections) = 3

\* every node of the outline with its key, its index path and the keys of
\* its ancestors, read off the tree alone
RECURSIVE OutlineNodes(_, _, _, _)
OutlineNodes(items, parentKey, path, ancestors) ==
    UNION { LET k == ItemKey(parentKey, i)
                item == items[i + 1]
            IN  {[key |-> k, path |-> Append(path, i),
                  ancestors |-> ancestors, item |-> item]} \cup
                OutlineNodes(item.children, k, Append(path, i),
                             ancestors \cup {k}) : i \in 0..(Len(items) - 1) }

AllNodes ==
    IF outline = Null THEN {}
    ELSE OutlineNodes(outline[1].outline, "", <<>>, {})

\* C14: a node of the outline is rendered if and only if all its ancestors
\* are in the expanded set; when an outline is loaded nothing is expanded
\* and the rendered nodes are the top-level ones.
C14_RenderedIffAncestorsExpanded ==
    /\ [](\A n \in AllNodes :
            ([key |-> n.key, item |-> n.item] \in RenderedItems)
                <=> (n.ancestors \subseteq expandedSections))
    /\ [][ outline' # outline =>
            /\ expandedSections' = {}
            /\ {r.key : r \in RenderedItems'}
                = {ToString(i) : i \in 0..(Len(outline'[1].outline) - 1)} ]_vars

\* C14's case: a node of depth 3 whose parent is expanded and whose
\* grandparent is collapsed
C14_Witness ==
    /\ outline # Null
    /\ "0-0" \in expandedSections
    /\ "0" \notin expandedSections
    /\ \E n \in AllNodes : n.path = <<0, 0, 0>>

\* C15: the keys of distinct nodes are distinct; a step that changes the
\* expanded set flips one key, that of a node with a chevron, and leaves the
\* navigation alone; toggling twice gives the set back; a step that
\* navigates leaves the expanded set alone.
C15_ToggleFlipsOneNode ==
    /\ [](\A a, b \in AllNodes : a.key = b.key => a.path = b.path)
    /\ [](\A k \in ToggleButtons :
            Toggled(Toggled(expandedSections, k), k) = expandedSections)
    /\ [][ expandedSections' # expandedSections =>
            /\ clickedPage' = clickedPage
            /\ \E k \in ToggleButtons :
                (expandedSections' \ expandedSections)
                    \cup (expandedSections \ expandedSections') = {k} ]_vars
    /\ [][ clickedPage' # clickedPage =>
            expandedSections' = expandedSections ]_vars

\* C15's case: the item on page 5, of depth 3, was clicked and its
\* grandparent was collapsed afterwards
C15_Witness ==
    /\ clickedPage = <<5>>
    /\ "1-0" \in expandedSections
    /\ "1" \notin expandedSections

\* C16: at most one analysis is in flight: loading holds exactly while one
\* is, the Start button is disabled while loading holds, and an analysis
\* starts only when none is in flight.
C16_AtMostOneAnalysisInFlight ==
    /\ [](Len(pending) <= 1)
    /\ [](loading <=> pending # <<>>)
    /\ [](loading => StartDisabled)
    /\ [][ Len(pending') > Len(pending) => (~loading /\ pending = <<>>) ]_vars

\* C16's case: a second analysis is in flight after the first has finished,
\* with files and texts that would pass the validation again
C16_Witness ==
    /\ loading
    /\ Len(pending) = 1
    /\ analysis # Null
    /\ Len(pdfFiles) >= 3
    /\ ~AllWhiteSpace(personaDescription)
    /\ ~AllWhiteSpace(jobToBeDone)

\* the names of files, in their order
NamesOf(files) == [i \in 1..Len(files) |-> files[i].name]

\* C17: the result of an analysis is fixed when the analysis starts: its
\* documents are the names of the files selected then, in order, and its
\* persona and job the texts then; no drop, removal or edit changes an
\* analysis under way, and the result shown at completion is that one.
C17_ResultSnapshotsStartState ==
    [][ /\ Len(pending') > Len(pending) =>
            /\ pending' = Append(pending, pending'[Len(pending')])
            /\ pending'[Len(pending')].metadata.documents = NamesOf(pdfFiles)
            /\ pending'[Len(pending')].metadata.persona_description
                = personaDescription
            /\ pending'[Len(pending')].metadata.job_to_be_done = jobToBeDone
        /\ Len(pending') = Len(pending) => pending' = pending
        /\ Len(pending') < Len(pending) =>
            /\ pending' = Tail(pending)
            /\ analysis' = <<pending[1]>>
        /\ analysis' # analysis => Len(pending') < Len(pending) ]_vars

\* C17's case: the result shown is not about the files and the persona text
\* of the page: they were changed after the analysis started
C17_Witness ==
    /\ analysis # Null
    /\ pending = <<>>
    /\ analysis[1].metadata.documents # NamesOf(pdfFiles)
    /\ Len(analysis[1].metadata.documents) > Len(pdfFiles)
    /\ analysis[1].metadata.persona_description # personaDescription

\* C18: in every analysis result the document of every extracted section and
\* of every sub-section analysis is one of metadata.documents, and the level
\* of every extracted section is H1, H2 or H3.
C18_ResultDocumentsAreListed ==
    \A r \in Results :
        LET listed == {r.metadata.documents[i] :
                            i \in 1..Len(r.metadata.documents)} IN
        /\ \A i \in 1..Len(r.extracted_sections) :
            /\ r.extracted_sections[i].document \in listed
            /\ r.extracted_sections[i].level \in {"H1", "H2", "H3"}
        /\ \A i \in 1..Len(r.sub_section_analyses) :
            r.sub_section_analyses[i].document \in listed

\* C18's case: the result of an analysis of exactly three files is shown and
\* two files are left on the page
C18_Witness ==
    /\ analysis # Null
    /\ Len(analysis[1].metadata.documents) = 3
    /\ analysis[1].extracted_sections[3].document
        = analysis[1].metadata.documents[3]
    /\ Len(pdfFiles) = 2

\* C19: once a file is held the upload controls are gone: the file is never
\* replaced and no further request is issued, so a request is issued only
\* while no file is held; and whenever an outline is set the error is empty.
C19_OneRequestPerSession ==
    /\ [](outline # Null => viewerError = NoError)
    /\ [][ Len(requests') > Len(requests) => pdfFile = Null ]_vars
    /\ [][ pdfFile # Null =>
            /\ pdfFile' = pdfFile
            /\ pdfUrl' = pdfUrl
            /\ Len(requests') <= Len(requests) ]_vars

\* C19's case: the request of the one accepted file has thrown; the file is
\* held and the dropzone is gone
C19_Witness ==
    /\ pdfFile # Null
    /\ ~DropzoneRendered
    /\ requests = <<>>
    /\ viewerError = ErrProcessing("Network Error")
    /\ outline = Null

====
